---- MODULE Spec2Model ----
(***************************************************************************)
(* Debounce state machine of the prosthetic-hand sketches.                 *)
(*                                                                         *)
(*   src/debounce/debounce.ino  lines 1-162: the analog sketch             *)
(*   src/unnamed/part_000                  : the digital sketch            *)
(*   src/debounce/debounce.ino  lines 164-343: the servo sketch            *)
(*                                                                         *)
(* The specifications share the definitions of the code:                   *)
(*   Spec     the sketch as it runs: loop() calls is_high on the global    *)
(*            debouncers, which C++ passes by value;                       *)
(*   SpecFn   is_high as a function on Debouncer values, applied to        *)
(*            inputs drawn from bounded sets and then to its own results;  *)
(*   SpecGate can_change as a function on ChangeAble values;               *)
(*   SpecInput  the reading is_high derives from its pin;                  *)
(*   SpecServo  loop() of the servo sketch;                                *)
(*   SpecEmg    EMGSimulator::next on an EMGSimulator object.              *)
(***************************************************************************)
EXTENDS Integers, FiniteSets, Sequences, TLC

VARIABLES
  sketch,                \* which of the two sketches is running
  clock,                 \* the value millis() returns (unsigned long)
  ticks,                 \* number of clock advances so far (bounds the model)
  bend_pin_debouncer,    \* global Debouncer of the bend channel
  unbend_pin_debouncer,  \* global Debouncer of the unbend channel
  pc,                    \* position of loop(): which is_high call is next
  finger_should_bend,    \* loop()'s local, the last value it got
  finger_should_extend,  \* loop()'s local, the last value it got
  led,                   \* level written to pin 13 by the analog sketch
  debouncer,             \* is_high's parameter object, as the last call left it
  call,                  \* record of the last is_high call
  hist,                  \* per pin: history of the calls on that channel
  gate,                  \* SpecGate: the caller's ChangeAble object
  cc,                    \* SpecGate: record of the last can_change call
  io,                    \* SpecInput: the last pin read and its reading
  finger,                \* SpecServo: the last angle written to the servo
  emg_simulator,         \* SpecEmg: the EMGSimulator object
  emg_out                \* SpecEmg: record of the last next() call

servo_vars == << io, finger, emg_simulator, emg_out >>

vars == << sketch, clock, ticks, bend_pin_debouncer, unbend_pin_debouncer, pc,
           finger_should_bend, finger_should_extend, led, debouncer, call,
           hist, gate, cc, io, finger, emg_simulator, emg_out >>

----------------------------------------------------------------------------
(* unsigned long: 32 bits, held as two 16-bit limbs because the values     *)
(* exceed the integers TLC can hold.                                       *)

Limb == 256 * 256

U32(n) == [hi |-> (n \div Limb) % Limb, lo |-> n % Limb]

u32_add(a, b) ==
  LET lo == a.lo + b.lo
      hi == a.hi + b.hi + (lo \div Limb)
  IN  [hi |-> hi % Limb, lo |-> lo % Limb]

u32_sub(a, b) ==
  LET lo == a.lo - b.lo
      borrow == IF lo < 0 THEN 1 ELSE 0
      hi == a.hi - b.hi - borrow
  IN  [hi |-> (hi + Limb) % Limb, lo |-> (lo + Limb) % Limb]

u32_lt(a, b) == a.hi < b.hi \/ (a.hi = b.hi /\ a.lo < b.lo)

u32_gt(a, b) == u32_lt(b, a)

u32_ge(a, b) == ~u32_lt(a, b)

----------------------------------------------------------------------------
(* Constants, enums and structs                                            *)

MAX_UNSIGNED_LONG == [hi |-> Limb - 1, lo |-> Limb - 1]

CHANGE_STATE_INTERVAL == 250

HIGH_THREASHOLD == 500

Low == 0

PossibleHigh == 1

High == 2

PossibleLow == 3

DebounceState == {Low, PossibleHigh, High, PossibleLow}

LOW == 0

HIGH == 1

Sketches == {"analog", "digital"}

refrence_pin == IF sketch = "analog" THEN 14 ELSE 0

bend_pin == IF sketch = "analog" THEN 17 ELSE 1

unbend_pin == IF sketch = "analog" THEN 16 ELSE 2

millis == clock

default_debounce_state == Low

default_change_able(now) == [can_change |-> TRUE, last_time |-> now]

new_debouncer(pin, now) ==
  [state |-> default_debounce_state,
   change |-> default_change_able(now),
   pin |-> pin]

----------------------------------------------------------------------------
(* can_change: the parameter c is a copy (ChangeAble c), so the result     *)
(* carries the callee's copy as it is at return; the caller's object is    *)
(* whatever the caller does with the call, and the code only uses ret.     *)
(* now is the value the call's millis() returns; read_clock tells whether  *)
(* the call got as far as reading it.                                      *)

can_change(c, interval_milli_seconds, now) ==
  IF c.can_change
  THEN [ret |-> TRUE, c |-> c, read_clock |-> FALSE]
  ELSE
    LET current_time == now
    IN  IF u32_lt(current_time, c.last_time)
        THEN \* millis() overflowed
          LET total_time == MAX_UNSIGNED_LONG
              diffrence == u32_sub(total_time, c.last_time)
              current_total_time == u32_add(diffrence, current_time)
          IN  IF u32_gt(current_total_time, U32(interval_milli_seconds))
              THEN [ret |-> TRUE, c |-> [c EXCEPT !.can_change = TRUE],
                    read_clock |-> TRUE]
              ELSE [ret |-> FALSE, c |-> c, read_clock |-> TRUE]
        ELSE
          IF u32_ge(u32_sub(current_time, c.last_time),
                    U32(interval_milli_seconds))
          THEN [ret |-> TRUE, c |-> [c EXCEPT !.can_change = TRUE],
                read_clock |-> TRUE]
          ELSE [ret |-> FALSE, c |-> c, read_clock |-> TRUE]

----------------------------------------------------------------------------
(* is_high.  The result is the parameter object as the call leaves it, the *)
(* value returned, and whether control reached the code after the switch.  *)
(* t_cmp is what millis() returns inside can_change, t_new what it returns *)
(* inside default_change_able (the counter may tick between the two).      *)
(* can_change(debouncer.change, ...) passes a copy: debouncer.change is    *)
(* not touched by the call.                                                *)

Returned(d, r) == [debouncer |-> d, ret |-> r, unreachable |-> FALSE]

\* case_Low with the provisional state skipped: a high reading commits High
case_Low_commits(d, current_input, t_cmp, t_new) ==
  IF current_input = HIGH
  THEN Returned([d EXCEPT !.change = default_change_able(t_new),
                          !.state = High], FALSE)
  ELSE Returned(d, FALSE)

case_Low(d, current_input, t_cmp, t_new) ==
  IF current_input = HIGH
  THEN Returned([d EXCEPT !.change = default_change_able(t_new),
                          !.state = PossibleHigh], FALSE)
  ELSE Returned(d, FALSE)

\* case_PossibleHigh restarting the cooldown on every poll that keeps waiting
case_PossibleHigh_restarts(d, current_input, t_cmp, t_new) ==
  IF current_input = HIGH
     /\ can_change(d.change, CHANGE_STATE_INTERVAL, t_cmp).ret
  THEN Returned([d EXCEPT !.state = High,
                          !.change = default_change_able(t_new)], TRUE)
  ELSE IF current_input = LOW
  THEN Returned([d EXCEPT !.state = Low,
                          !.change = default_change_able(t_new)], FALSE)
  ELSE Returned([d EXCEPT !.change = default_change_able(t_new)], FALSE)

case_PossibleHigh(d, current_input, t_cmp, t_new) ==
  IF current_input = HIGH
     /\ can_change(d.change, CHANGE_STATE_INTERVAL, t_cmp).ret
  THEN Returned([d EXCEPT !.state = High,
                          !.change = default_change_able(t_new)], TRUE)
  ELSE IF current_input = LOW
  THEN Returned([d EXCEPT !.state = Low,
                          !.change = default_change_able(t_new)], FALSE)
  ELSE Returned(d, FALSE)

\* case_High without the assignment to debouncer.change
case_High_no_reset(d, current_input, t_cmp, t_new) ==
  IF current_input = Low
  THEN Returned([d EXCEPT !.state = PossibleLow], TRUE)
  ELSE Returned(d, TRUE)

case_High(d, current_input, t_cmp, t_new) ==
  IF current_input = Low  \* the enum constant Low, which equals LOW
  THEN Returned([d EXCEPT !.change = default_change_able(t_new),
                          !.state = PossibleLow], TRUE)
  ELSE Returned(d, TRUE)

\* case_PossibleLow ending in "return false" like case PossibleHigh
case_PossibleLow_false(d, current_input, t_cmp, t_new) ==
  IF current_input = LOW
     /\ can_change(d.change, CHANGE_STATE_INTERVAL, t_cmp).ret
  THEN Returned([d EXCEPT !.change = default_change_able(t_new),
                          !.state = Low], FALSE)
  ELSE IF current_input = HIGH
  THEN Returned([d EXCEPT !.state = High,
                          !.change = default_change_able(t_new)], TRUE)
  ELSE Returned(d, FALSE)

case_PossibleLow(d, current_input, t_cmp, t_new) ==
  IF current_input = LOW
     /\ can_change(d.change, CHANGE_STATE_INTERVAL, t_cmp).ret
  THEN Returned([d EXCEPT !.change = default_change_able(t_new),
                          !.state = Low], FALSE)
  ELSE IF current_input = HIGH
  THEN Returned([d EXCEPT !.state = High,
                          !.change = default_change_able(t_new)], TRUE)
  ELSE Returned(d, TRUE)

\* the switch without "case PossibleLow:"
switch_state_three_cases(d, current_input, t_cmp, t_new) ==
  CASE d.state = Low -> case_Low(d, current_input, t_cmp, t_new)
    [] d.state = PossibleHigh -> case_PossibleHigh(d, current_input, t_cmp, t_new)
    [] d.state = High -> case_High(d, current_input, t_cmp, t_new)
    [] OTHER -> [debouncer |-> d, ret |-> FALSE, unreachable |-> TRUE]

switch_state(d, current_input, t_cmp, t_new) ==
  CASE d.state = Low -> case_Low(d, current_input, t_cmp, t_new)
    [] d.state = PossibleHigh -> case_PossibleHigh(d, current_input, t_cmp, t_new)
    [] d.state = High -> case_High(d, current_input, t_cmp, t_new)
    [] d.state = PossibleLow -> case_PossibleLow(d, current_input, t_cmp, t_new)
    [] OTHER -> \* printf("... unreachable area ..."); return false;
         [debouncer |-> d, ret |-> FALSE, unreachable |-> TRUE]

(* Input conditioning: analogRead and the literal threshold of the analog  *)
(* sketch, digitalRead of the digital one.                                 *)
analog_input(sample) == IF sample > 155 THEN HIGH ELSE LOW

digital_input(level) == level

current_input_of(sk, raw) ==
  IF sk = "analog" THEN analog_input(raw) ELSE digital_input(raw)

is_high(d, sk, raw, t_cmp, t_new) ==
  switch_state(d, current_input_of(sk, raw), t_cmp, t_new)

----------------------------------------------------------------------------
(* Bounds of the model                                                     *)

\* at most this many advances of the clock in one behaviour
MaxTicks == 3

\* SpecGate draws the clock from 0 .. MaxNow (and a few values beyond)
MaxNow == 260

\* milliseconds that may pass between two statements
Steps == {1, CHANGE_STATE_INTERVAL - 1}

\* the counter 95 ms before it wraps: 4294967200
WrapEdge == u32_sub(MAX_UNSIGNED_LONG, U32(95))

\* values of millis() at which a behaviour starts
StartClocks == {U32(0), WrapEdge}

\* what analogRead (0..1023) and digitalRead can deliver
RawInputs(sk) ==
  IF sk = "analog" THEN {0, 155, 156, 500, 501, 1023} ELSE {LOW, HIGH}

Channels == {"bend", "unbend"}

----------------------------------------------------------------------------
(* The servo sketch: EMGSimulator, from_1023_to_90, loop                   *)

Word == 256 * 256

\* conversion of an integer to int16_t
to_int16(x) ==
  LET m == x % Word
  IN  IF m >= Word \div 2 THEN m - Word ELSE m

\* unsigned long a modulo a small m
u32_mod(a, m) == ((a.hi % m) * (Limb % m) + (a.lo % m)) % m

Relaxed == 0

Intermediate == 1

Clenched == 2

EmgState == {Relaxed, Intermediate, Clenched}

\* switch (emg_state) with Relaxed's amplitude 250 for 50
levels_wide(emg_state) ==
  CASE emg_state = Relaxed -> [baseline |-> 200, amplitude |-> 250]
    [] emg_state = Intermediate -> [baseline |-> 620, amplitude |-> 30]
    [] emg_state = Clenched -> [baseline |-> 940, amplitude |-> 10]
    [] OTHER -> [baseline |-> 0, amplitude |-> 0]

\* switch (emg_state) { case ...: baseline = ..; amplitude = ..; break; }
levels(emg_state) ==
  CASE emg_state = Relaxed -> [baseline |-> 200, amplitude |-> 50]
    [] emg_state = Intermediate -> [baseline |-> 620, amplitude |-> 30]
    [] emg_state = Clenched -> [baseline |-> 940, amplitude |-> 10]
    [] OTHER -> [baseline |-> 0, amplitude |-> 0]

\* spike length taken from noise / 200 instead of noise itself
spike_length_scaled(noise) == (((noise \div 200) % 5) + 1) % 256

\* spike_remaining = (noise % 5) + 1;   (uint8_t)
spike_length(noise) == ((noise % 5) + 1) % 256

(* EMGSimulator::next on object sim, noise being the value of             *)
(* number_generator.next_bounded(1024).  The result is the object as the   *)
(* call leaves it, the value returned, and what the call did.              *)
EMGSimulator_next(sim, noise) ==
  LET step_count == u32_add(sim.step_count, U32(1))
      phase == (sim.phase + 17) % Word
      r == noise % 100
      emg_state ==
        IF u32_mod(step_count, 1000) = 0
        THEN (IF r < 50 THEN Relaxed
              ELSE IF r < 80 THEN Intermediate ELSE Clenched)
        ELSE sim.emg_state
      triggered == sim.spike_remaining = 0 /\ (noise % 200) = 0
      spike_remaining ==
        IF triggered THEN spike_length(noise) ELSE sim.spike_remaining
      after == [step_count |-> step_count, emg_state |-> emg_state,
                phase |-> phase, spike_remaining |-> spike_remaining]
  IN  IF spike_remaining > 0
      THEN [sim |-> [after EXCEPT !.spike_remaining = spike_remaining - 1],
            ret |-> 1023, spike |-> TRUE, triggered |-> triggered,
            signal |-> 1023, clamped |-> FALSE]
      ELSE
        LET baseline == levels(emg_state).baseline
            amplitude == levels(emg_state).amplitude
            jitter == to_int16((noise % (2 * amplitude)) - amplitude)
            artifact == IF (phase % 256) < 128 THEN 3 ELSE -3
            signal == to_int16(baseline + jitter + artifact)
            clamped == IF signal < 0 THEN 0
                       ELSE IF signal > 1023 THEN 1023 ELSE signal
        IN  [sim |-> after, ret |-> clamped % Word, spike |-> FALSE,
             triggered |-> triggered, signal |-> signal,
             clamped |-> clamped # signal]

\* EMGSimulator(RNG generator): the member initializers
new_EMGSimulator ==
  [step_count |-> U32(0), emg_state |-> Relaxed, phase |-> 0,
   spike_remaining |-> 0]

\* the product taken in uint16_t, without the cast to uint32_t
from_1023_to_90_narrow(number) ==
  (((number * 90) % Word) \div 1023) % Word

\* return (uint16_t)(((uint32_t)number * 90) / 1023);
\* (a uint16_t times 90 is below 2^32: the uint32_t product does not wrap)
from_1023_to_90(number) ==
  (((number % Word) * 90) \div 1023) % Word

(* ExponentalMovingAverage::update works in float; of its result the model *)
(* keeps the range: ema starts at 0 and every step moves it towards        *)
(* alpha * input + (1 - alpha) * ema and no further, so it stays within    *)
(* the range of the inputs, 0 .. 1023, and so does (uint16_t)ema.          *)
ema_update == 0 .. 1023

NoIO == [valid |-> FALSE, raw |-> 0, current_input |-> LOW]

NoFinger == [valid |-> FALSE, smoothed |-> 0, motor_out |-> 0]

NoEmgOut ==
  [calls |-> 0, ret |-> 0, spike |-> FALSE, triggered |-> FALSE,
   signal |-> 0, clamped |-> FALSE, noise_200 |-> FALSE, noise_5 |-> 0,
   entry |-> new_EMGSimulator, prev_spike |-> FALSE]

ServoIdle ==
  /\ io = NoIO
  /\ finger = NoFinger
  /\ emg_simulator = new_EMGSimulator
  /\ emg_out = NoEmgOut

----------------------------------------------------------------------------
(* History kept beside the program state, per channel:                     *)
(*   polled, exit  the parameter object as the last call on it returned    *)
(*   run, dur      inside a run of consecutive high readings whose first   *)
(*                 poll started in Low; ms since that first poll           *)
(*   from, since   the state the object's current state was entered from   *)
(*                 by a poll (-1: not entered by a poll), ms since then    *)
(*   lows          every reading since that entry was low                  *)
(* and of the last is_high call (call): the object it received (entry),    *)
(* the reading, the value returned, the value millis() gave the reset      *)
(* (t_new), and the channel's history as the call found it.  Of the last   *)
(* can_change call (cc): timed = a call on this gate since its last reset  *)
(* returned true through the time comparison; earlier = one before this    *)
(* call did.                                                               *)

NoHist(d) ==
  [polled |-> FALSE, exit |-> d, run |-> FALSE, dur |-> 0,
   from |-> -1, since |-> 0, lows |-> TRUE]

NoCall(d) ==
  [op |-> "none", chan |-> "bend", current_input |-> LOW,
   entry |-> d, ret |-> FALSE, unreachable |-> FALSE, t_new |-> U32(0),
   polled |-> FALSE, prev_exit |-> d, run |-> FALSE, dur |-> 0, from |-> -1, since |-> 0, lows |-> TRUE]

NoCC(c) ==
  [valid |-> FALSE, entry |-> c, now |-> U32(0), ret |-> FALSE, c |-> c,
   read_clock |-> FALSE, earlier |-> FALSE, timed |-> FALSE]

Aged(h, ms) == [h EXCEPT !.dur = @ + ms, !.since = @ + ms]

\* the record of one is_high call on object d of channel ch
CallRecord(ch, d, raw, r, t_new) ==
  LET h == hist[ch]
      in == current_input_of(sketch, raw)
  IN  [op |-> "is_high", chan |-> ch, current_input |-> in,
       entry |-> d, ret |-> r.ret, unreachable |-> r.unreachable,
       t_new |-> t_new,
       polled |-> h.polled, prev_exit |-> h.exit,
       run |-> h.run \/ (in = HIGH /\ d.state = Low),
       dur |-> IF h.run THEN h.dur ELSE 0,
       from |-> h.from, since |-> h.since, lows |-> h.lows]

\* the channel's history after that call, dt ms having passed inside it
HistAfter(ch, d, raw, r, dt) ==
  LET h == hist[ch]
      in == current_input_of(sketch, raw)
      changed == r.debouncer.state # d.state
  IN  [polled |-> TRUE,
       exit |-> r.debouncer,
       run |-> in = HIGH /\ (h.run \/ d.state = Low),
       dur |-> IF in = HIGH /\ h.run THEN h.dur + dt ELSE dt,
       from |-> IF changed THEN d.state ELSE h.from,
       since |-> IF changed THEN 0 ELSE h.since + dt,
       lows |-> IF changed THEN TRUE ELSE h.lows /\ in = LOW]

----------------------------------------------------------------------------
(* Spec: the sketch as it runs                                             *)

Init ==
  /\ sketch \in Sketches
  /\ clock \in StartClocks
  /\ ticks = 0
  /\ bend_pin_debouncer = new_debouncer(bend_pin, clock)
  /\ unbend_pin_debouncer = new_debouncer(unbend_pin, clock)
  /\ pc = "bend"
  /\ finger_should_bend = FALSE
  /\ finger_should_extend = FALSE
  /\ led = LOW
  /\ debouncer = bend_pin_debouncer
  /\ call = NoCall(bend_pin_debouncer)
  /\ hist = [ch \in Channels |->
               NoHist(IF ch = "bend" THEN bend_pin_debouncer
                      ELSE unbend_pin_debouncer)]
  /\ gate = default_change_able(clock)
  /\ cc = NoCC(gate)
  /\ ServoIdle

\* time passes between two statements
Delay ==
  \E ms \in Steps :
    /\ ticks < MaxTicks
    /\ ticks' = ticks + 1
    /\ clock' = u32_add(clock, U32(ms))
    /\ hist' = [ch \in Channels |-> Aged(hist[ch], ms)]
    /\ UNCHANGED servo_vars
    /\ UNCHANGED << sketch, bend_pin_debouncer, unbend_pin_debouncer, pc,
                    finger_should_bend, finger_should_extend, led,
                    debouncer, call, gate, cc >>

\* what one is_high(d) call on channel ch does to the clock and the history;
\* the parameter object ends in debouncer
Call_is_high(ch, d, raw, dt) ==
  LET t_new == u32_add(clock, U32(dt))
      r == is_high(d, sketch, raw, clock, t_new)
  IN  /\ dt = 1 => ticks < MaxTicks
      /\ ticks' = ticks + dt
      /\ clock' = t_new
      /\ debouncer' = r.debouncer
      /\ call' = CallRecord(ch, d, raw, r, t_new)
      /\ hist' = [c \in Channels |->
                    IF c = ch THEN HistAfter(ch, d, raw, r, dt)
                    ELSE Aged(hist[c], dt)]

\* bool finger_should_bend = is_high(bend_pin_debouncer); [digitalWrite(13, ..)]
LoopBend ==
  /\ pc = "bend"
  /\ \E raw \in RawInputs(sketch), dt \in {0, 1} :
       /\ Call_is_high("bend", bend_pin_debouncer, raw, dt)
       /\ finger_should_bend' = call'.ret
       /\ led' = IF sketch = "analog"
                 THEN (IF call'.ret THEN HIGH ELSE LOW)
                 ELSE led
  /\ pc' = IF sketch = "digital" THEN "unbend" ELSE "bend"
  \* is_high(Debouncer debouncer) received a copy: the global is as it was
  /\ UNCHANGED servo_vars
  /\ UNCHANGED << sketch, bend_pin_debouncer, unbend_pin_debouncer,
                  finger_should_extend, gate, cc >>

\* LoopUnbend with the call's argument copied from the line above it:
\* bool finger_should_extend = is_high(bend_pin_debouncer);
LoopUnbend_bend_argument ==
  /\ pc = "unbend"
  /\ \E raw \in RawInputs(sketch), dt \in {0, 1} :
       /\ Call_is_high("unbend", bend_pin_debouncer, raw, dt)
       /\ finger_should_extend' = call'.ret
  /\ pc' = "bend"
  /\ UNCHANGED servo_vars
  /\ UNCHANGED << sketch, bend_pin_debouncer, unbend_pin_debouncer,
                  finger_should_bend, led, gate, cc >>

\* bool finger_should_extend = is_high(unbend_pin_debouncer);
LoopUnbend ==
  /\ pc = "unbend"
  /\ \E raw \in RawInputs(sketch), dt \in {0, 1} :
       /\ Call_is_high("unbend", unbend_pin_debouncer, raw, dt)
       /\ finger_should_extend' = call'.ret
  /\ pc' = "bend"
  /\ UNCHANGED servo_vars
  /\ UNCHANGED << sketch, bend_pin_debouncer, unbend_pin_debouncer,
                  finger_should_bend, led, gate, cc >>

loop == LoopBend \/ LoopUnbend

Next == Delay \/ LoopBend \/ LoopUnbend

Spec == Init /\ [][Next]_vars

----------------------------------------------------------------------------
(* SpecFn: is_high as a function on Debouncer values.  The first object is *)
(* any Debouncer value; every later call receives the object the previous  *)
(* call left, or a freshly constructed one.                                *)

InitFn ==
  /\ sketch \in Sketches
  /\ clock \in StartClocks
  /\ ticks = 0
  /\ bend_pin_debouncer = new_debouncer(bend_pin, U32(0))
  /\ unbend_pin_debouncer = new_debouncer(unbend_pin, U32(0))
  /\ pc = "bend"
  /\ finger_should_bend = FALSE
  /\ finger_should_extend = FALSE
  /\ led = LOW
  /\ debouncer \in [state : DebounceState,
                    change : [can_change : BOOLEAN, last_time : StartClocks],
                    pin : {bend_pin}]
  /\ call = NoCall(debouncer)
  /\ hist = [ch \in Channels |-> NoHist(debouncer)]
  /\ gate = default_change_able(U32(0))
  /\ cc = NoCC(gate)
  /\ ServoIdle

\* is_high(debouncer)
PollFn ==
  /\ \E raw \in RawInputs(sketch), dt \in {0, 1} :
       Call_is_high("bend", debouncer, raw, dt)
  /\ UNCHANGED servo_vars
  /\ UNCHANGED << sketch, bend_pin_debouncer, unbend_pin_debouncer, pc,
                  finger_should_bend, finger_should_extend, led, gate, cc >>

\* debouncer = new_debouncer(bend_pin)
NewFn ==
  /\ call.op # "new"
  /\ debouncer' = new_debouncer(bend_pin, millis)
  /\ call' = [NoCall(debouncer') EXCEPT !.op = "new", !.t_new = millis]
  /\ hist' = [ch \in Channels |-> NoHist(debouncer')]
  /\ UNCHANGED servo_vars
  /\ UNCHANGED << sketch, clock, ticks, bend_pin_debouncer,
                  unbend_pin_debouncer, pc, finger_should_bend,
                  finger_should_extend, led, gate, cc >>

NextFn == Delay \/ PollFn \/ NewFn

SpecFn == InitFn /\ [][NextFn]_vars

----------------------------------------------------------------------------
(* SpecGate: can_change as a function on ChangeAble values.  gate is the   *)
(* caller's object; the call receives a copy of it.                        *)

\* values of last_time: 0, 1000, 4294967200 and the largest
GateTimes == {U32(0), U32(1000), WrapEdge, MAX_UNSIGNED_LONG}

\* values of millis(): 0 .. MaxNow, and some on either side of each last_time
Nows ==
  {U32(n) : n \in 0 .. MaxNow}
    \cup {u32_sub(t, U32(1)) : t \in GateTimes}
    \cup {u32_add(t, U32(n)) : t \in GateTimes,
            n \in {CHANGE_STATE_INTERVAL - 1, CHANGE_STATE_INTERVAL,
                   CHANGE_STATE_INTERVAL + 1}}

InitGate ==
  /\ sketch \in Sketches
  /\ clock \in Nows
  /\ ticks = 0
  /\ bend_pin_debouncer = new_debouncer(bend_pin, U32(0))
  /\ unbend_pin_debouncer = new_debouncer(unbend_pin, U32(0))
  /\ pc = "bend"
  /\ finger_should_bend = FALSE
  /\ finger_should_extend = FALSE
  /\ led = LOW
  /\ debouncer = bend_pin_debouncer
  /\ call = NoCall(debouncer)
  /\ hist = [ch \in Channels |-> NoHist(debouncer)]
  /\ gate \in [can_change : BOOLEAN, last_time : GateTimes]
  /\ cc = NoCC(gate)
  /\ ServoIdle

\* can_change(gate, CHANGE_STATE_INTERVAL)
CallGate ==
  LET r == can_change(gate, CHANGE_STATE_INTERVAL, millis)
  IN  /\ cc' = [valid |-> TRUE, entry |-> gate, now |-> millis,
                ret |-> r.ret, c |-> r.c, read_clock |-> r.read_clock,
                earlier |-> cc.timed,
                timed |-> cc.timed \/ (r.ret /\ r.read_clock)]
      \* can_change(ChangeAble c, ...) received a copy: gate is as it was
      /\ UNCHANGED servo_vars
      /\ UNCHANGED << sketch, clock, ticks, bend_pin_debouncer,
                      unbend_pin_debouncer, pc, finger_should_bend,
                      finger_should_extend, led, debouncer, call, hist, gate >>

\* gate = default_change_able()
ResetGate ==
  /\ cc.valid
  /\ gate' = default_change_able(millis)
  /\ cc' = NoCC(gate')
  /\ UNCHANGED servo_vars
  /\ UNCHANGED << sketch, clock, ticks, bend_pin_debouncer,
                  unbend_pin_debouncer, pc, finger_should_bend,
                  finger_should_extend, led, debouncer, call, hist >>

NextGate == Delay \/ CallGate \/ ResetGate

SpecGate == InitGate /\ [][NextGate]_vars

----------------------------------------------------------------------------
(* The part of the state the servo-sketch specifications leave alone       *)

DebounceIdle ==
  /\ clock = U32(0)
  /\ ticks = 0
  /\ bend_pin_debouncer = new_debouncer(bend_pin, U32(0))
  /\ unbend_pin_debouncer = new_debouncer(unbend_pin, U32(0))
  /\ pc = "bend"
  /\ finger_should_bend = FALSE
  /\ finger_should_extend = FALSE
  /\ led = LOW
  /\ debouncer = bend_pin_debouncer
  /\ call = NoCall(debouncer)
  /\ hist = [ch \in Channels |-> NoHist(debouncer)]
  /\ gate = debouncer.change
  /\ cc = NoCC(gate)

debounce_vars ==
  << sketch, clock, ticks, bend_pin_debouncer, unbend_pin_debouncer, pc,
     finger_should_bend, finger_should_extend, led, debouncer, call, hist,
     gate, cc >>

----------------------------------------------------------------------------
(* SpecInput: the first statements of is_high, which read the pin and      *)
(* derive current_input, on every value the pin can deliver.               *)

\* analogRead delivers 0 .. 1023, digitalRead LOW or HIGH
PinValues(sk) == IF sk = "analog" THEN 0 .. 1023 ELSE {LOW, HIGH}

InitInput ==
  /\ sketch \in Sketches
  /\ DebounceIdle
  /\ ServoIdle

ReadInput ==
  /\ \E raw \in PinValues(sketch) :
       io' = [valid |-> TRUE, raw |-> raw,
              current_input |-> current_input_of(sketch, raw)]
  /\ UNCHANGED << finger, emg_simulator, emg_out >>
  /\ UNCHANGED debounce_vars

NextInput == ReadInput

SpecInput == InitInput /\ [][NextInput]_vars

----------------------------------------------------------------------------
(* SpecServo: loop() of the servo sketch after setup(), which wrote 0.     *)

InitServo ==
  /\ sketch = "analog"
  /\ DebounceIdle
  /\ io = NoIO
  /\ finger = [valid |-> TRUE, smoothed |-> 0, motor_out |-> 0]
  /\ emg_simulator = new_EMGSimulator
  /\ emg_out = NoEmgOut

ServoLoop ==
  /\ \E smoothed \in ema_update :
       finger' = [valid |-> TRUE, smoothed |-> smoothed,
                  motor_out |-> from_1023_to_90(smoothed)]
  /\ UNCHANGED << io, emg_simulator, emg_out >>
  /\ UNCHANGED debounce_vars

NextServo == ServoLoop

SpecServo == InitServo /\ [][NextServo]_vars

----------------------------------------------------------------------------
(* SpecEmg: EMGSimulator::next on an EMGSimulator object.  The generator's *)
(* next_bounded(1024) is any value in 0 .. 1023.  The object a behaviour   *)
(* starts from is one that calls of next() on the constructed object       *)
(* leave: spike_remaining 0, phase 17 * step_count, emg_state Relaxed      *)
(* before the 1000th call and any state after it.                          *)

\* at most this many calls of next() in one behaviour
MaxCalls == 2

\* step_count at the start: 0, 999, 1998, 4294967294
EmgStarts ==
  {U32(0), U32(999), U32(1998), u32_sub(MAX_UNSIGNED_LONG, U32(1))}

InitEmg ==
  /\ sketch = "analog"
  /\ DebounceIdle
  /\ io = NoIO
  /\ finger = NoFinger
  /\ \E c \in EmgStarts :
       \E e \in (IF u32_lt(c, U32(1000)) THEN {Relaxed} ELSE EmgState) :
         emg_simulator = [step_count |-> c, emg_state |-> e,
                          phase |-> (17 * c.lo) % Word,
                          spike_remaining |-> 0]
  /\ emg_out = NoEmgOut

EmgNext ==
  /\ emg_out.calls < MaxCalls
  /\ \E noise \in 0 .. 1023 :
       LET r == EMGSimulator_next(emg_simulator, noise)
       IN  /\ emg_simulator' = r.sim
           /\ emg_out' = [calls |-> emg_out.calls + 1, ret |-> r.ret,
                          spike |-> r.spike, triggered |-> r.triggered,
                          signal |-> r.signal, clamped |-> r.clamped,
                          noise_200 |-> (noise % 200) = 0,
                          noise_5 |-> noise % 5, entry |-> emg_simulator,
                          prev_spike |-> emg_out.spike]
  /\ UNCHANGED << io, finger >>
  /\ UNCHANGED debounce_vars

NextEmg == EmgNext

SpecEmg == InitEmg /\ [][NextEmg]_vars

----------------------------------------------------------------------------
(* Properties                                                              *)

IsPoll == call.op = "is_high"

\* C1: the state and gate a poll of a channel starts from are the state and
\* gate the previous poll of that channel ended with.
C1_PollPersists ==
  (IsPoll /\ call.polled) =>
    /\ call.entry.state = call.prev_exit.state
    /\ call.entry.change = call.prev_exit.change

\* C2: in a run of consecutive high readings that began in Low and has
\* lasted less than CHANGE_STATE_INTERVAL ms, and in the low poll that
\* follows it, every poll returns false, High is not committed, and the low
\* poll leaves the debouncer in Low.
C2_NoiseRejection ==
  (IsPoll /\ call.run /\ call.dur < CHANGE_STATE_INTERVAL) =>
    /\ call.ret = FALSE
    /\ debouncer.state # High
    /\ call.current_input = LOW => debouncer.state = Low

\* C3: in a run of consecutive high readings that began in Low, a poll made
\* CHANGE_STATE_INTERVAL ms or more after the first one returns true and
\* finds or leaves the debouncer in High.
C3_ConfirmedTransition ==
  (IsPoll /\ call.run /\ call.current_input = HIGH
     /\ call.dur >= CHANGE_STATE_INTERVAL) =>
    /\ call.ret = TRUE
    /\ debouncer.state = High

\* C4: from PossibleLow entered from High, a high reading moves to High on
\* that poll whatever the elapsed time; a poll moves PossibleLow to Low only
\* if every reading since the entry was low and at least
\* CHANGE_STATE_INTERVAL ms have passed since the entry.
C4_AsymmetricCancellation ==
  (IsPoll /\ call.entry.state = PossibleLow /\ call.from = High) =>
    /\ call.current_input = HIGH => debouncer.state = High
    /\ debouncer.state = Low =>
         /\ call.lows
         /\ call.current_input = LOW
         /\ call.since >= CHANGE_STATE_INTERVAL

\* C5: the value a poll returns is true exactly when the state the poll
\* leaves is High or PossibleLow.
C5_OutputInvariant ==
  IsPoll => (call.ret <=> debouncer.state \in {High, PossibleLow})

C5_Witness ==
  /\ IsPoll
  /\ call.entry.state = PossibleLow
  /\ ~call.entry.change.can_change
  /\ call.current_input = LOW
  /\ debouncer.state = PossibleLow
  /\ call.ret

\* C6: on a gate that is not eligible, with now < last_time, can_change
\* returns true exactly when (MAX_UNSIGNED_LONG - last_time) + now >=
\* interval; with last_time = 4294967200 that is exactly when now >= 155.
C6_Wraparound ==
  (cc.valid /\ ~cc.entry.can_change /\ u32_lt(cc.now, cc.entry.last_time)) =>
    /\ cc.ret <=>
         u32_ge(u32_add(u32_sub(MAX_UNSIGNED_LONG, cc.entry.last_time), cc.now),
                U32(CHANGE_STATE_INTERVAL))
    /\ cc.entry.last_time = WrapEdge => (cc.ret <=> u32_ge(cc.now, U32(155)))

\* C7: once a can_change call on a gate that was not eligible has returned
\* true through the time comparison, the gate is eligible, and every later
\* call before the next reset returns true without reading the clock.
C7_IdempotentEligibility ==
  /\ (cc.valid /\ ~cc.entry.can_change /\ cc.ret) => gate.can_change
  /\ (cc.valid /\ cc.earlier) => (cc.ret /\ ~cc.read_clock)

Edges ==
  { <<Low, PossibleHigh>>, <<PossibleHigh, High>>, <<PossibleHigh, Low>>,
    <<High, PossibleLow>>, <<PossibleLow, Low>>, <<PossibleLow, High>> }

\* C8: one poll leaves the state as it was or moves it along one of the six
\* edges of the cycle.
C8_StrictCycle ==
  IsPoll =>
    \/ debouncer.state = call.entry.state
    \/ <<call.entry.state, debouncer.state>> \in Edges

C8_Witness ==
  /\ IsPoll
  /\ call.entry.state = Low
  /\ call.current_input = HIGH
  /\ debouncer.state = PossibleHigh
  /\ call.entry.change.can_change

\* C9: a poll that changes the state leaves the gate {true, the value
\* millis() returned}; a newly created Debouncer is Low with gate
\* {true, millis()}.
C9_GateReset ==
  /\ (IsPoll /\ debouncer.state # call.entry.state) =>
       debouncer.change = [can_change |-> TRUE, last_time |-> call.t_new]
  /\ call.op = "new" =>
       /\ debouncer.state = Low
       /\ debouncer.change = [can_change |-> TRUE, last_time |-> call.t_new]

C9_Witness ==
  /\ IsPoll
  /\ call.entry.state = High
  /\ debouncer.state = PossibleLow
  /\ call.entry.change.last_time # call.t_new

\* C10: every poll returns from one of the switch's cases; the code after
\* the switch is not reached.
C10_Totality == IsPoll => ~call.unreachable

C10_Witness ==
  /\ IsPoll
  /\ call.entry.state = PossibleLow
  /\ ~call.entry.change.can_change
  /\ call.current_input = HIGH
  /\ ~call.unreachable

\* C11: a poll of one channel receives that channel's own debouncer and
\* leaves the other channel's debouncer, and the object the other channel's
\* last poll left, as they were.
C11_ChannelIndependence ==
  [][ (call' # call /\ call'.op = "is_high") =>
        /\ call'.chan = "bend" =>
             /\ call'.entry = bend_pin_debouncer
             /\ call'.entry.pin = bend_pin
             /\ unbend_pin_debouncer' = unbend_pin_debouncer
             /\ hist'["unbend"].exit = hist["unbend"].exit
        /\ call'.chan = "unbend" =>
             /\ call'.entry = unbend_pin_debouncer
             /\ call'.entry.pin = unbend_pin
             /\ bend_pin_debouncer' = bend_pin_debouncer
             /\ hist'["bend"].exit = hist["bend"].exit ]_vars

C11_Witness ==
  /\ IsPoll
  /\ call.chan = "unbend"
  /\ hist["bend"].polled
  /\ hist["bend"].exit.state = PossibleHigh
  /\ debouncer.state = Low
  /\ finger_should_bend = FALSE
  /\ unbend_pin_debouncer.pin # bend_pin_debouncer.pin

\* C12: in the analog sketch the reading fed to the state machine is high
\* exactly when the sample is above HIGH_THREASHOLD; in the digital sketch
\* the pin's level is passed through unchanged.
C12_InputConditioning ==
  io.valid =>
    IF sketch = "analog"
    THEN (io.current_input = HIGH) <=> (io.raw > HIGH_THREASHOLD)
    ELSE io.current_input = io.raw

\* C13: for a smoothed value n in 0 .. 1023 the angle loop() writes to the
\* servo is from_1023_to_90(n), which is within 0 .. 90, is the floor of
\* n * 90 / 1023, is 0 for 0 and 90 for 1023, and is no less than the angle
\* of any smaller n.
C13_ServoRange ==
  (finger.valid /\ finger.smoothed \in 0 .. 1023) =>
    /\ finger.motor_out \in 0 .. 90
    /\ finger.motor_out * 1023 <= finger.smoothed * 90
    /\ finger.smoothed * 90 < (finger.motor_out + 1) * 1023
    /\ finger.smoothed = 0 => finger.motor_out = 0
    /\ finger.smoothed = 1023 => finger.motor_out = 90
    /\ \A n \in 0 .. finger.smoothed :
         from_1023_to_90(n) <= finger.motor_out

C13_Witness ==
  /\ finger.valid
  /\ finger.smoothed = 1023
  /\ finger.motor_out = 90

\* C14: on a gate that is not eligible can_change returns true exactly when
\* the milliseconds elapsed since last_time, (now - last_time) mod 2^32, are
\* at least the interval, whether or not the clock wrapped in between, and
\* the sum the wrapped branch forms stays below 2^32.
C14_WrapIndependence ==
  (cc.valid /\ ~cc.entry.can_change) =>
    /\ cc.ret <=> u32_ge(u32_sub(cc.now, cc.entry.last_time),
                         U32(CHANGE_STATE_INTERVAL))
    /\ u32_lt(cc.now, cc.entry.last_time) =>
         LET diffrence == u32_sub(MAX_UNSIGNED_LONG, cc.entry.last_time)
         IN  diffrence.hi + cc.now.hi
               + ((diffrence.lo + cc.now.lo) \div Limb) < Limb

\* C15: a poll that leaves the state of the object it received unchanged
\* (Low with a low reading, High with a high reading, a provisional state
\* that keeps waiting) leaves the object's gate, last_time included, as it
\* was: repeated polls do not restart the cooldown.
C15_GateFrame ==
  (IsPoll /\ debouncer.state = call.entry.state) =>
    /\ debouncer.change.last_time = call.entry.change.last_time
    /\ debouncer.change = call.entry.change

C15_Witness ==
  /\ IsPoll
  /\ call.entry.state = PossibleHigh
  /\ ~call.entry.change.can_change
  /\ call.current_input = HIGH
  /\ debouncer.state = PossibleHigh
  /\ ~call.ret
  /\ call.t_new # call.entry.change.last_time
  /\ debouncer.change.last_time = call.entry.change.last_time

\* C16: every call of next() returns a value in 0 .. 1023; a sample that is
\* not a spike lies within baseline +- (amplitude + 3) of the emg_state the
\* call leaves (Relaxed 200 +- 50, Intermediate 620 +- 30, Clenched
\* 940 +- 10), and neither clamp changes the computed signal.
C16_OutputRange ==
  emg_out.calls > 0 =>
    /\ emg_out.ret \in 0 .. 1023
    /\ ~emg_out.spike =>
         /\ emg_simulator.emg_state = Relaxed =>
              emg_out.ret \in (200 - 53) .. (200 + 53)
         /\ emg_simulator.emg_state = Intermediate =>
              emg_out.ret \in (620 - 33) .. (620 + 33)
         /\ emg_simulator.emg_state = Clenched =>
              emg_out.ret \in (940 - 13) .. (940 + 13)
         /\ ~emg_out.clamped
         /\ emg_out.ret = emg_out.signal

C16_Witness ==
  /\ emg_out.calls = 2
  /\ ~emg_out.spike
  /\ emg_out.entry.emg_state = Relaxed
  /\ emg_simulator.emg_state = Clenched
  /\ emg_out.ret = 940 + 13 - 1
  /\ ~emg_out.clamped

\* C17: spike_remaining is 0 after every return of next(); a spike is
\* triggered only by noise % 200 = 0 on an object whose spike_remaining is
\* 0, it sets spike_remaining to (noise % 5) + 1 and that call returns 1023;
\* every 1023 sample is the call that triggered it, so a spike is one sample
\* long.
C17_SpikeLength ==
  /\ emg_simulator.spike_remaining = 0
  /\ emg_out.calls > 0 =>
       /\ emg_out.triggered =>
            /\ emg_out.noise_200
            /\ emg_out.entry.spike_remaining = 0
            /\ emg_simulator.spike_remaining = (emg_out.noise_5 + 1) - 1
            /\ emg_out.ret = 1023
       /\ emg_out.spike => emg_out.triggered
       /\ emg_out.ret = 1023 => emg_out.spike

C17_Witness ==
  /\ emg_out.calls = 2
  /\ emg_out.prev_spike
  /\ ~emg_out.spike
  /\ emg_out.ret < 1023
  /\ emg_simulator.spike_remaining = 0

====
